---- MODULE Spec2Model ----
(***************************************************************************)
(* Model of the Mermaid editor shell in src/src/App.tsx (function App,     *)
(* lines 74-614): the debounced render pipeline, the document/file         *)
(* handlers, the clipboard check and the pan/zoom handlers of the preview. *)
(*                                                                         *)
(* Every React event handler and every continuation of an asynchronous     *)
(* handler (the code after an await, a timer callback, a promise           *)
(* resolution) is one action.  React state is read through the closure of  *)
(* the render in which the handler was created; where that closure is      *)
(* stale (the editor listener, created once at mount) the model keeps the  *)
(* captured value.                                                         *)
(***************************************************************************)
EXTENDS Integers, Sequences, FiniteSets, TLC

(***************************************************************************)
(* Bounds of the model.                                                    *)
(***************************************************************************)
\* external render calls that may be outstanding at once
MaxInflight == 2
\* pan coordinates are kept within -MaxPan..MaxPan
MaxPan == 1
\* the edits of a burst are counted up to MaxBurst
MaxBurst == 2

(***************************************************************************)
(* Text.  A text is a sequence of characters; the characters that matter   *)
(* to the code are the line breaks CR and LF, other white space (SP) and   *)
(* visible characters: "g" stands for diagram text the renderer accepts,   *)
(* "x" for text it rejects.                                                *)
(***************************************************************************)
Whitespace == {"SP", "LF", "CR"}

\* String.prototype.trim() leaves nothing: `!code.trim()`
IsBlank(t) == \A i \in 1..Len(t) : t[i] \in Whitespace

\* What the CodeMirror document holds after `insert: code` and returns from
\* doc.toString(): the inserted string is split into lines at \r\n, \r or \n
\* (no lineSeparator is configured) and the lines are joined with \n.
RECURSIVE Normalize(_)
Normalize(t) ==
    IF t = <<>> THEN <<>>
    ELSE IF t[1] = "CR"
         THEN IF Len(t) >= 2 /\ t[2] = "LF"
              THEN <<"LF">> \o Normalize(SubSeq(t, 3, Len(t)))
              ELSE <<"LF">> \o Normalize(Tail(t))
         ELSE <<t[1]>> \o Normalize(Tail(t))

DEFAULT_CODE == <<"g", "LF">>

\* texts a user edit may leave in the buffer
EditTexts == {<<>>, <<"SP">>, <<"g">>, <<"x">>}
\* the demo diagrams of the Demos menu
Demos == {<<"g", "LF", "g">>}
\* the files on disk before the session: one with Windows line ends
DiskFiles == ("a.mmd" :> <<"g", "CR", "LF">>) @@ ("b.mmd" :> <<"g", "g">>)

Paths == DOMAIN DiskFiles
\* a path given on the command line that names no file
MissingPath == "missing.mmd"
NoFile == "null"

Themes == {"default", "dark"}
\* theme names a command line may carry; "bogus" is not a valid theme
CliThemes == Themes \cup {"bogus", "none"}
CliFiles == Paths \cup {MissingPath, "none"}

\* messages of the errors the dialogs and the file calls may reject with
ErrMsgs == {"boom", "denied"}

NoTimer == 0

\* themeMap[themeName] || themeMap.default; the colours are named by the theme
getThemeColors(themeName) == IF themeName \in Themes THEN themeName ELSE "default"

(***************************************************************************)
(* Values of the status line and of the preview markup.                    *)
(***************************************************************************)
St(text, arg) == [text |-> text, arg |-> arg]

Svg(kind, code, theme, msg) == [kind |-> kind, code |-> code, theme |-> theme, msg |-> msg]
EmptySvg == Svg("empty", <<>>, "", "")
Placeholder == Svg("placeholder", <<>>, "", "")
\* renderMermaid(code, theme) is a function of its arguments: it rejects
\* text with a syntax error, with the message ParseError, and resolves with
\* the markup of `code` drawn in the colours `theme` otherwise
Rejects(code) == \E i \in 1..Len(code) : code[i] = "x"
ParseError == "Parse error on line 2"
renderMermaid(code, theme) == Svg("rendered", code, theme, "")
\* <div class="text-red-500 p-4">${errorMessage}</div>
ErrorSvg(msg) == Svg("error", <<>>, "", msg)

VARIABLES
    \* the editor and the application state
    doc,              \* editorView.state.doc
    currentFile,      \* state.currentFile
    isDirty,          \* state.isDirty
    currentTheme,     \* state.currentTheme
    status, isError,  \* status line
    svg,              \* markup injected into the preview
    \* the render scheduler
    renderTimeoutRef, \* renderTimeoutRef.current
    timers,           \* debounce timers set and neither fired nor cleared
    inflight,         \* renderMermaid calls not yet settled, oldest first
    \* asynchronous file handlers
    reading,          \* readTextFile calls not yet settled (paths)
    writing,          \* writeTextFile calls not yet settled
    fs,               \* contents of the files on disk
    \* the preview's view transform
    zoom, pan, isDragging, dragStart,
    \* bookkeeping for the properties (not read by any handler)
    lastOp, lastArg,  \* the handler that ran last and the message it was given
                      \* (for a wheel event: the calls made on the event)
    burst,            \* edits since the last debounce fire, up to MaxBurst
    latestPending,    \* the most recently initiated render call is outstanding
    latestResult,     \* what that call displayed when it settled, <<>> before
    opened,           \* <<[path, text]>> read by the last open, <<>> once edited
    downPtr, downPan, \* pointer and pan at the last primary press
    \* the clipboard check of the mount effect
    clipboard,        \* where checkClipboard stands, and the text it holds
    \* bookkeeping across sessions
    prevTheme,        \* <<theme selected when the previous session ended>>
    \* the download folder
    downloads         \* <<markup of the last diagram.svg downloaded>>, <<>> before

docVars == <<doc, currentFile, isDirty, currentTheme, status, isError, svg,
             renderTimeoutRef, timers, inflight, reading, writing, fs,
             burst, latestPending, latestResult, opened>>
viewVars == <<zoom, pan, isDragging, dragStart, downPtr, downPan>>
startVars == <<clipboard, prevTheme, downloads>>
vars == <<docVars, viewVars, startVars, lastOp, lastArg>>

\* what the user sees of a render
Display == [svg |-> svg, status |-> status, isError |-> isError]

\* the handler `name` ran, given the message `arg` ("" when it takes none)
op(name, arg) == lastOp' = name /\ lastArg' = arg

Pt(x, y) == [x |-> x, y |-> y]

\* what a wheel handler did to its event: the calls it made on it
Stopped == "stopPropagation"
StoppedAndPrevented == "stopPropagation preventDefault"

\* checkClipboard: pc is "timer" before it starts, "reading" during
\* `await readText()`, "asking" during `await ask(...)` with the trimmed text
\* in `text`, and "done" after it returned
Clip(pc, text) == [pc |-> pc, text |-> text]
\* clientX and clientY of the pointer events
Coords == {0, 1}
Ptr == {Pt(x, y) : x \in Coords, y \in Coords}
\* the pointer positions on one horizontal line of the preview
LinePtr == {Pt(x, 0) : x \in Coords}

(***************************************************************************)
(* Initial state: the component is mounted, the mount effects ran (editor  *)
(* setup, theme effect, command-line arguments, clipboard timer) and the   *)
(* render caused by a command-line theme is committed.                     *)
(***************************************************************************)
Call(code, theme) == [code |-> code, theme |-> getThemeColors(theme)]

\* the program's state once mounted, given the command line
Mounted(cliTheme, cliFile) ==
    /\ doc = DEFAULT_CODE
    /\ currentFile = NoFile
    /\ isDirty = FALSE
    /\ currentTheme = IF cliTheme \in Themes THEN cliTheme ELSE "default"
    /\ status = St("Ready", "")
    /\ isError = FALSE
    /\ svg = EmptySvg
    /\ renderTimeoutRef = NoTimer
    /\ timers = {}
    \* renderDiagram() of the editor effect and of the theme effect, and the
    \* theme effect again when the command line changed the theme
    /\ inflight = <<Call(DEFAULT_CODE, "default"), Call(DEFAULT_CODE, "default")>>
                  \o (IF cliTheme \in Themes \ {"default"}
                      THEN <<Call(DEFAULT_CODE, cliTheme)>> ELSE <<>>)
    /\ reading = IF cliFile = "none" THEN <<>> ELSE <<cliFile>>
    /\ writing = <<>>
    /\ zoom = 100
    /\ pan = Pt(0, 0)
    /\ isDragging = FALSE
    /\ dragStart = Pt(0, 0)
    /\ burst = 0
    /\ latestPending = TRUE
    /\ latestResult = <<>>
    /\ opened = <<>>
    /\ downPtr = Pt(0, 0)
    /\ downPan = Pt(0, 0)
    \* the clipboard effect has set its 500 ms timer
    /\ clipboard = Clip("timer", <<>>)

\* the first session: the disk holds `files`
InitWith(cliTheme, cliFile, files) ==
    /\ Mounted(cliTheme, cliFile)
    /\ fs = files
    /\ lastOp = "mount"
    /\ lastArg = ""
    /\ prevTheme = <<>>
    /\ downloads = <<>>

\* the application is closed and started again, with a command line that
\* names no file: nothing of the component's state outlives the window
Restart(cliTheme) ==
    /\ op("Restart", cliTheme)
    /\ prevTheme' = <<currentTheme>>
    /\ doc' = DEFAULT_CODE
    /\ currentFile' = NoFile
    /\ isDirty' = FALSE
    /\ currentTheme' = IF cliTheme \in Themes THEN cliTheme ELSE "default"
    /\ status' = St("Ready", "")
    /\ isError' = FALSE
    /\ svg' = EmptySvg
    /\ renderTimeoutRef' = NoTimer
    /\ timers' = {}
    \* renderDiagram() of the editor effect and of the theme effect, and the
    \* theme effect again when the command line changed the theme
    /\ inflight' = <<Call(DEFAULT_CODE, "default"), Call(DEFAULT_CODE, "default")>>
                  \o (IF cliTheme \in Themes \ {"default"}
                      THEN <<Call(DEFAULT_CODE, cliTheme)>> ELSE <<>>)
    /\ reading' = <<>>
    /\ writing' = <<>>
    /\ zoom' = 100
    /\ pan' = Pt(0, 0)
    /\ isDragging' = FALSE
    /\ dragStart' = Pt(0, 0)
    /\ burst' = 0
    /\ latestPending' = TRUE
    /\ latestResult' = <<>>
    /\ opened' = <<>>
    /\ downPtr' = Pt(0, 0)
    /\ downPan' = Pt(0, 0)
    \* the clipboard effect has set its 500 ms timer
    /\ clipboard' = Clip("timer", <<>>)
    /\ UNCHANGED <<fs, downloads>>

(***************************************************************************)
(* Render scheduler: renderDiagram, debouncedRender, the editor's update   *)
(* listener, the debounce timer and the settling of renderMermaid.         *)
(***************************************************************************)
\* `await renderMermaid(code, theme)`: the call is issued and left outstanding
issueRender(code, theme) ==
    /\ Len(inflight) < MaxInflight
    /\ inflight' = Append(inflight, Call(code, theme))
    /\ latestPending' = TRUE
    /\ latestResult' = <<>>

\* renderDiagram without its branch for blank text
renderDiagram_noBlank(code, theme) ==
    /\ issueRender(code, theme)
    /\ UNCHANGED <<svg, status, isError>>

\* renderDiagram as created by a render whose state.currentTheme is `theme`,
\* called when the buffer holds `code`, up to its first await
renderDiagram(code, theme) ==
    IF IsBlank(code)
    THEN /\ svg' = Placeholder
         /\ status' = St("Ready", "")
         /\ isError' = FALSE
         /\ UNCHANGED <<inflight, latestPending, latestResult>>
    ELSE /\ issueRender(code, theme)
         /\ UNCHANGED <<svg, status, isError>>

\* the handle setTimeout returns: one that names no timer still known
NewHandle ==
    CHOOSE h \in 1..(Cardinality(timers) + 2) : h \notin timers /\ h # renderTimeoutRef

\* debouncedRender without its clearTimeout
debouncedRender_noClear ==
    /\ timers' = timers \cup {NewHandle}
    /\ renderTimeoutRef' = NewHandle

debouncedRender ==
    /\ timers' = (timers \ {renderTimeoutRef}) \cup {NewHandle}
    /\ renderTimeoutRef' = NewHandle

\* EditorView.updateListener, apart from its setState (the caller's isDirty')
updateListener ==
    /\ debouncedRender
    /\ burst' = IF burst < MaxBurst THEN burst + 1 ELSE MaxBurst

\* update.docChanged for a transaction that replaces the whole buffer by
\* `code`: only replacing nothing by nothing is an empty change set
docChanged(code) == ~(doc = <<>> /\ code = <<>>)

\* setCode(code): editorView.dispatch({changes: {from: 0, to: length, insert: code}})
setCode(code) ==
    IF docChanged(code)
    THEN /\ doc' = Normalize(code)
         /\ updateListener
    ELSE UNCHANGED <<doc, timers, renderTimeoutRef, burst>>

\* getCode(): editorViewRef.current?.state.doc.toString() || ''
getCode == doc

\* the theme that the renderDiagram reached from the editor's listener reads:
\* the listener is created by the mount effect (dependency list []), so it
\* holds debouncedRender and renderDiagram of the first render, whose
\* state.currentTheme is the initial 'default'
listenerTheme == "default"

\* an edit whose listener does not mark the document dirty
Edit_noDirty(t) ==
    /\ op("Edit", "")
    /\ t # doc
    /\ doc' = t
    /\ updateListener
    /\ opened' = <<>>
    /\ UNCHANGED <<isDirty, currentFile, currentTheme, status, isError, svg, inflight,
                   latestPending, latestResult, reading, writing, fs, viewVars,
                   startVars>>

\* the user edits the buffer in the editor
Edit(t) ==
    /\ op("Edit", "")
    /\ t # doc
    /\ doc' = t
    /\ isDirty' = TRUE
    /\ updateListener
    /\ opened' = <<>>
    /\ UNCHANGED <<currentFile, currentTheme, status, isError, svg, inflight,
                   latestPending, latestResult, reading, writing, fs, viewVars, startVars>>

\* the debounce timer `h` fires: () => { renderDiagram() }
TimerFire(h) ==
    /\ op("TimerFire", "")
    /\ h \in timers
    /\ timers' = timers \ {h}
    /\ burst' = 0
    /\ renderDiagram(doc, listenerTheme)
    /\ UNCHANGED <<doc, currentFile, isDirty, currentTheme, renderTimeoutRef,
                   reading, writing, fs, opened, viewVars, startVars>>

RemoveAt(s, i) == SubSeq(s, 1, i - 1) \o SubSeq(s, i + 1, Len(s))

\* bookkeeping when the i-th outstanding call settles
settle(i) ==
    /\ inflight' = RemoveAt(inflight, i)
    /\ latestPending' = (latestPending /\ i # Len(inflight))
    /\ latestResult' = IF latestPending /\ i = Len(inflight) THEN <<Display'>>
                       ELSE latestResult

\* RenderResolve without its setIsError(false)
RenderResolve_keepsError(i) ==
    /\ op("RenderResolve", "")
    /\ i \in 1..Len(inflight)
    /\ ~Rejects(inflight[i].code)
    /\ svg' = renderMermaid(inflight[i].code, inflight[i].theme)
    /\ status' = St("Syntax OK", "")
    /\ isError' = isError
    /\ settle(i)
    /\ UNCHANGED <<doc, currentFile, isDirty, currentTheme,
                   renderTimeoutRef, timers, burst, reading, writing, fs, opened,
                   viewVars, startVars>>

\* a try block that also resets the view when the markup is replaced
RenderResolve_resetsView(i) ==
    /\ op("RenderResolve", "")
    /\ i \in 1..Len(inflight)
    /\ ~Rejects(inflight[i].code)
    /\ svg' = renderMermaid(inflight[i].code, inflight[i].theme)
    /\ status' = St("Syntax OK", "")
    /\ isError' = FALSE
    /\ settle(i)
    /\ zoom' = 100
    /\ pan' = Pt(0, 0)
    /\ UNCHANGED <<doc, currentFile, isDirty, currentTheme, renderTimeoutRef,
                   timers, burst, reading, writing, fs, opened, isDragging,
                   dragStart, downPtr, downPan, startVars>>

\* renderMermaid resolves: the rest of the try block
RenderResolve(i) ==
    /\ op("RenderResolve", "")
    /\ i \in 1..Len(inflight)
    /\ ~Rejects(inflight[i].code)
    /\ svg' = renderMermaid(inflight[i].code, inflight[i].theme)
    /\ status' = St("Syntax OK", "")
    /\ isError' = FALSE
    /\ settle(i)
    /\ UNCHANGED <<doc, currentFile, isDirty, currentTheme, renderTimeoutRef,
                   timers, burst, reading, writing, fs, opened, viewVars, startVars>>

\* error instanceof Error ? error.message : String(error)
errorMessage(msg) == msg

\* a catch block that calls renderMermaid again
RenderReject_retries(i, msg) ==
    /\ op("RenderReject", msg)
    /\ i \in 1..Len(inflight)
    /\ Rejects(inflight[i].code)
    /\ svg' = ErrorSvg(errorMessage(msg))
    /\ status' = St("Error: ", errorMessage(msg))
    /\ isError' = TRUE
    /\ inflight' = Append(RemoveAt(inflight, i), inflight[i])
    /\ latestPending' = TRUE
    /\ latestResult' = <<>>
    /\ UNCHANGED <<doc, currentFile, isDirty, currentTheme, renderTimeoutRef,
                   timers, burst, reading, writing, fs, opened, viewVars, startVars>>

\* RenderReject without its setIsError(true)
RenderReject_noFlag(i, msg) ==
    /\ op("RenderReject", msg)
    /\ i \in 1..Len(inflight)
    /\ Rejects(inflight[i].code)
    /\ svg' = ErrorSvg(errorMessage(msg))
    /\ status' = St("Error: ", errorMessage(msg))
    /\ isError' = isError
    /\ settle(i)
    /\ UNCHANGED <<doc, currentFile, isDirty, currentTheme,
                   renderTimeoutRef, timers, burst, reading, writing, fs, opened,
                   viewVars, startVars>>

\* renderMermaid rejects with an error whose message is msg: the catch block
RenderReject(i, msg) ==
    /\ op("RenderReject", msg)
    /\ i \in 1..Len(inflight)
    /\ Rejects(inflight[i].code)
    /\ svg' = ErrorSvg(errorMessage(msg))
    /\ status' = St("Error: ", errorMessage(msg))
    /\ isError' = TRUE
    /\ settle(i)
    /\ UNCHANGED <<doc, currentFile, isDirty, currentTheme, renderTimeoutRef,
                   timers, burst, reading, writing, fs, opened, viewVars, startVars>>

\* a theme selector whose change goes through debouncedRender
ThemeSelect_debounced(t) ==
    /\ op("ThemeSelect", "")
    /\ currentTheme' = t
    /\ IF t # currentTheme
       THEN debouncedRender
       ELSE UNCHANGED <<timers, renderTimeoutRef>>
    /\ UNCHANGED <<svg, status, isError, inflight, latestPending, latestResult,
                   doc, currentFile, isDirty, burst, reading, writing, fs, opened,
                   viewVars, startVars>>

\* the theme selector: setState(prev => ({...prev, currentTheme: value})); the
\* theme effect then calls the new renderDiagram when the theme changed
ThemeSelect(t) ==
    /\ op("ThemeSelect", "")
    /\ currentTheme' = t
    /\ IF t # currentTheme
       THEN renderDiagram(doc, t)
       ELSE UNCHANGED <<svg, status, isError, inflight, latestPending, latestResult>>
    /\ UNCHANGED <<doc, currentFile, isDirty, renderTimeoutRef, timers, burst,
                   reading, writing, fs, opened, viewVars, startVars>>

(***************************************************************************)
(* Document and file handlers.  An asynchronous handler is one action up   *)
(* to the await whose result it keeps data across, and one action for each *)
(* way that await settles.  One read and one write may be outstanding.     *)
(***************************************************************************)
handleNew ==
    /\ op("handleNew", "")
    /\ setCode(DEFAULT_CODE)
    /\ currentFile' = NoFile
    /\ isDirty' = FALSE
    /\ currentTheme' = "default"
    /\ status' = St("New file", "")
    \* the theme effect, when this changed the theme; the buffer then holds
    \* DEFAULT_CODE, which is not blank
    /\ IF currentTheme # "default"
       THEN issueRender(Normalize(DEFAULT_CODE), "default")
       ELSE UNCHANGED <<inflight, latestPending, latestResult>>
    /\ opened' = <<>>
    /\ UNCHANGED <<isError, svg, reading, writing, fs, viewVars, startVars>>

handleLoadDemo(demoCode) ==
    /\ op("handleLoadDemo", "")
    /\ setCode(demoCode)
    /\ isDirty' = TRUE
    /\ status' = St("Loaded demo", "")
    /\ isError' = FALSE
    /\ opened' = <<>>
    /\ UNCHANGED <<currentFile, currentTheme, svg, inflight, latestPending,
                   latestResult, reading, writing, fs, viewVars, startVars>>

\* handleOpen: the dialog returns filePath and readTextFile(filePath) is awaited
OpenPick(filePath) ==
    /\ op("OpenPick", "")
    /\ reading = <<>>
    /\ reading' = <<filePath>>
    /\ UNCHANGED <<doc, currentFile, isDirty, currentTheme, status, isError, svg,
                   renderTimeoutRef, timers, inflight, writing, fs, burst,
                   latestPending, latestResult, opened, viewVars, startVars>>

\* handleOpen: the dialog is cancelled (filePath is null)
OpenCancel ==
    /\ op("OpenCancel", "")
    /\ UNCHANGED <<docVars, viewVars, startVars>>

\* the catch block of handleOpen, and the .catch of the command-line open
openFailed(msg) ==
    /\ status' = St("Failed to open: ", errorMessage(msg))
    /\ isError' = TRUE

\* handleOpen: open() rejects
OpenDialogFail(msg) ==
    /\ op("OpenDialogFail", msg)
    /\ openFailed(msg)
    /\ UNCHANGED <<doc, currentFile, isDirty, currentTheme, svg, renderTimeoutRef,
                   timers, inflight, reading, writing, fs, burst, latestPending,
                   latestResult, opened, viewVars, startVars>>

\* readTextFile resolves: the rest of handleOpen's try block, and the .then
\* of the command-line open
ReadOk ==
    /\ op("ReadOk", "")
    /\ reading # <<>>
    /\ reading[1] \in DOMAIN fs
    /\ LET filePath == reading[1]
           content == fs[filePath]
       IN /\ setCode(content)
          /\ currentFile' = filePath
          /\ isDirty' = FALSE
          /\ status' = St("Opened: ", filePath)
          /\ opened' = <<[path |-> filePath, text |-> content]>>
    /\ reading' = <<>>
    /\ UNCHANGED <<currentTheme, isError, svg, inflight, latestPending, latestResult,
                   writing, fs, viewVars, startVars>>

\* readTextFile rejects
ReadFail(msg) ==
    /\ op("ReadFail", msg)
    /\ reading # <<>>
    /\ openFailed(msg)
    /\ reading' = <<>>
    /\ UNCHANGED <<doc, currentFile, isDirty, currentTheme, svg, renderTimeoutRef,
                   timers, inflight, writing, fs, burst, latestPending,
                   latestResult, opened, viewVars, startVars>>

\* handleSave from `const content = getCode()` to `await writeTextFile(...)`
startWrite(filePath) ==
    /\ writing = <<>>
    /\ writing' = <<[path |-> filePath, content |-> getCode, opened |-> opened]>>
    /\ UNCHANGED <<doc, currentFile, isDirty, currentTheme, status, isError, svg,
                   renderTimeoutRef, timers, inflight, reading, fs, burst,
                   latestPending, latestResult, opened, viewVars, startVars>>

\* handleSave with a current file: no dialog
SaveCurrent ==
    /\ op("SaveCurrent", "")
    /\ currentFile # NoFile
    /\ startWrite(currentFile)

\* handleSave without a current file: the dialog returns savePath
SaveAs(savePath) ==
    /\ op("SaveAs", "")
    /\ currentFile = NoFile
    /\ startWrite(savePath)

\* a cancelled save dialog that marks the buffer saved
SaveCancel_marksClean ==
    /\ op("SaveCancel", "")
    /\ currentFile = NoFile
    /\ isDirty' = FALSE
    /\ UNCHANGED <<doc, currentFile, currentTheme, status, isError, svg,
                   renderTimeoutRef, timers, inflight, reading, writing, fs, burst,
                   latestPending, latestResult, opened, viewVars, startVars>>

\* handleSave without a current file: the dialog is cancelled
SaveCancel ==
    /\ op("SaveCancel", "")
    /\ currentFile = NoFile
    /\ UNCHANGED <<docVars, viewVars, startVars>>

\* the catch block of handleSave
saveFailed(msg) ==
    /\ status' = St("Failed to save: ", errorMessage(msg))
    /\ isError' = TRUE

\* handleSave without a current file: save() rejects
SaveDialogFail(msg) ==
    /\ op("SaveDialogFail", msg)
    /\ currentFile = NoFile
    /\ saveFailed(msg)
    /\ UNCHANGED <<doc, currentFile, isDirty, currentTheme, svg, renderTimeoutRef,
                   timers, inflight, reading, writing, fs, burst, latestPending,
                   latestResult, opened, viewVars, startVars>>

\* writeTextFile resolves: the rest of handleSave's try block
WriteOk ==
    /\ op("WriteOk", "")
    /\ writing # <<>>
    /\ LET w == writing[1]
       IN /\ fs' = [fs EXCEPT ![w.path] = w.content]
          /\ currentFile' = w.path
          /\ isDirty' = FALSE
          /\ status' = St("Saved: ", w.path)
    /\ writing' = <<>>
    /\ UNCHANGED <<doc, currentTheme, isError, svg, renderTimeoutRef, timers,
                   inflight, reading, burst, latestPending, latestResult,
                   opened, viewVars, startVars>>

\* WriteFail of a handleSave that marks the document clean before the write
WriteFail_marksClean(msg) ==
    /\ op("WriteFail", msg)
    /\ writing # <<>>
    /\ saveFailed(msg)
    /\ isDirty' = FALSE
    /\ writing' = <<>>
    /\ UNCHANGED <<doc, currentFile, currentTheme, svg, renderTimeoutRef,
                   timers, inflight, reading, fs, burst, latestPending,
                   latestResult, opened, viewVars, startVars>>

\* writeTextFile rejects
WriteFail(msg) ==
    /\ op("WriteFail", msg)
    /\ writing # <<>>
    /\ saveFailed(msg)
    /\ writing' = <<>>
    /\ UNCHANGED <<doc, currentFile, isDirty, currentTheme, svg, renderTimeoutRef,
                   timers, inflight, reading, fs, burst, latestPending,
                   latestResult, opened, viewVars, startVars>>

\* previewEl?.querySelector('svg'): the first <svg> element of the markup
\* injected into the preview; only the markup renderMermaid resolved with
\* holds one
svgEl == IF svg.kind = "rendered" THEN <<svg>> ELSE <<>>

\* handleExport without its check of svgEl
handleExport_noCheck ==
    /\ op("handleExport", "")
    /\ downloads' = <<svg>>
    /\ status' = St("Exported SVG", "")
    /\ isError' = FALSE
    /\ UNCHANGED <<doc, currentFile, isDirty, currentTheme, svg, renderTimeoutRef,
                   timers, inflight, reading, writing, fs, burst, latestPending,
                   latestResult, opened, viewVars, clipboard, prevTheme>>

\* the Export button: link.download = 'diagram.svg'; link.click()
handleExport ==
    /\ op("handleExport", "")
    /\ IF svgEl = <<>>
       THEN /\ status' = St("No diagram to export", "")
            /\ isError' = TRUE
            /\ UNCHANGED downloads
       ELSE /\ downloads' = <<svgEl[1]>>
            /\ status' = St("Exported SVG", "")
            /\ isError' = FALSE
    /\ UNCHANGED <<doc, currentFile, isDirty, currentTheme, svg, renderTimeoutRef,
                   timers, inflight, reading, writing, fs, burst, latestPending,
                   latestResult, opened, viewVars, clipboard, prevTheme>>

(***************************************************************************)
(* Clipboard import: checkClipboard, started 500 ms after mount.  The      *)
(* diagram keywords are single characters of the model's texts: "graph"    *)
(* (five letters) and "pie" (three) stand for the thirteen keywords.       *)
(***************************************************************************)
keywords == {"graph", "pie"}

\* the number of UTF-16 units of a character of the model
Units(c) == IF c = "graph" THEN 5 ELSE IF c = "pie" THEN 3 ELSE 1

\* String.prototype.length
RECURSIVE length(_)
length(t) == IF t = <<>> THEN 0 ELSE Units(t[1]) + length(Tail(t))

\* String.prototype.trim()
RECURSIVE trimStart(_)
trimStart(t) ==
    IF t # <<>> /\ t[1] \in Whitespace THEN trimStart(Tail(t)) ELSE t

RECURSIVE trimEnd(_)
trimEnd(t) ==
    IF t # <<>> /\ t[Len(t)] \in Whitespace
    THEN trimEnd(SubSeq(t, 1, Len(t) - 1)) ELSE t

trim(t) == trimEnd(trimStart(t))

\* keywords.some(kw => startsWith(kw) || includes(kw + ' ') || includes('\n' + kw))
\* on the lower-cased text
hasMermaidKeyword(trimmed) ==
    \/ trimmed # <<>> /\ trimmed[1] \in keywords
    \/ \E i \in 1..(Len(trimmed) - 1) : trimmed[i] \in keywords /\ trimmed[i + 1] = "SP"
    \/ \E i \in 1..(Len(trimmed) - 1) : trimmed[i] = "LF" /\ trimmed[i + 1] \in keywords

\* texts the clipboard may hold at start-up
ClipTexts ==
    { <<>>, <<"SP">>, <<"pie">>, <<"g", "SP", "graph">>,
      <<"SP", "graph", "CR", "LF", "g">>, <<"x", "graph", "SP", "x">> }

\* the 500 ms timer fires: checkClipboard() runs up to `await readText()`
ClipTimerFire ==
    /\ op("ClipTimerFire", "")
    /\ clipboard.pc = "timer"
    /\ clipboard' = Clip("reading", <<>>)
    /\ UNCHANGED <<docVars, viewVars, prevTheme, downloads>>

\* readText() resolves with clipboardText: up to `await ask(...)` or return
ReadTextOk(clipboardText) ==
    /\ op("ReadTextOk", "")
    /\ clipboard.pc = "reading"
    /\ IF clipboardText = <<>> \/ length(trim(clipboardText)) = 0
       THEN clipboard' = Clip("done", <<>>)
       ELSE LET trimmed == trim(clipboardText)
            IN IF hasMermaidKeyword(trimmed) /\ length(trimmed) > 5
               THEN clipboard' = Clip("asking", trimmed)
               ELSE clipboard' = Clip("done", <<>>)
    /\ UNCHANGED <<docVars, viewVars, prevTheme, downloads>>

\* readText() rejects: the catch block logs to the console
ReadTextFail(msg) ==
    /\ op("ReadTextFail", msg)
    /\ clipboard.pc = "reading"
    /\ clipboard' = Clip("done", <<>>)
    /\ UNCHANGED <<docVars, viewVars, prevTheme, downloads>>

\* an ask() answer handled as a confirmation whatever it is
AskAnswer_ignoresAnswer(result) ==
    /\ op("AskAnswer", IF result THEN "yes" ELSE "no")
    /\ clipboard.pc = "asking"
    /\ setCode(clipboard.text)
    /\ isDirty' = TRUE
    /\ status' = St("Imported from clipboard", "")
    /\ isError' = FALSE
    /\ opened' = <<>>
    /\ clipboard' = Clip("done", <<>>)
    /\ UNCHANGED <<currentFile, currentTheme, svg, inflight, latestPending,
                   latestResult, reading, writing, fs, viewVars, prevTheme, downloads>>

\* ask() resolves with the user's answer: the rest of the try block
AskAnswer(result) ==
    /\ op("AskAnswer", IF result THEN "yes" ELSE "no")
    /\ clipboard.pc = "asking"
    /\ IF result
       THEN /\ setCode(clipboard.text)
            /\ isDirty' = TRUE
            /\ status' = St("Imported from clipboard", "")
            /\ isError' = FALSE
            /\ opened' = <<>>
       ELSE UNCHANGED <<doc, timers, renderTimeoutRef, burst, isDirty, status,
                        isError, opened>>
    /\ clipboard' = Clip("done", <<>>)
    /\ UNCHANGED <<currentFile, currentTheme, svg, inflight, latestPending,
                   latestResult, reading, writing, fs, viewVars, prevTheme, downloads>>

\* ask() rejects: the catch block logs to the console
AskFail(msg) ==
    /\ op("AskFail", msg)
    /\ clipboard.pc = "asking"
    /\ clipboard' = Clip("done", <<>>)
    /\ UNCHANGED <<docVars, viewVars, prevTheme, downloads>>

(***************************************************************************)
(* View transform: the pointer, wheel and button handlers of the preview.  *)
(***************************************************************************)
InPan(p) == p.x \in -MaxPan..MaxPan /\ p.y \in -MaxPan..MaxPan

\* handleMouseDown without its check of the button
handleMouseDown_anyButton(button, client) ==
    /\ op("handleMouseDown", "")
    /\ isDragging' = TRUE
    /\ dragStart' = Pt(client.x - pan.x, client.y - pan.y)
    /\ downPtr' = client
    /\ downPan' = pan
    /\ UNCHANGED <<zoom, pan, docVars, startVars>>

\* handleMouseDown recording the pointer position instead of the offset
handleMouseDown_noOffset(button, client) ==
    /\ op("handleMouseDown", "")
    /\ IF button # 0
       THEN UNCHANGED <<isDragging, dragStart, downPtr, downPan>>
       ELSE /\ isDragging' = TRUE
            /\ dragStart' = client
            /\ downPtr' = client
            /\ downPan' = pan
    /\ UNCHANGED <<zoom, pan, docVars, startVars>>

handleMouseDown(button, client) ==
    /\ op("handleMouseDown", "")
    /\ IF button # 0
       THEN UNCHANGED <<isDragging, dragStart, downPtr, downPan>>
       ELSE /\ isDragging' = TRUE
            /\ dragStart' = Pt(client.x - pan.x, client.y - pan.y)
            /\ downPtr' = client
            /\ downPan' = pan
    /\ UNCHANGED <<zoom, pan, docVars, startVars>>

\* handleMouseMove without its check of isDragging
handleMouseMove_always(client) ==
    /\ op("handleMouseMove", "")
    /\ pan' = Pt(client.x - dragStart.x, client.y - dragStart.y)
    /\ InPan(pan')
    /\ UNCHANGED <<zoom, isDragging, dragStart, downPtr, downPan, docVars, startVars>>

handleMouseMove(client) ==
    /\ op("handleMouseMove", "")
    /\ IF ~isDragging
       THEN UNCHANGED pan
       ELSE /\ pan' = Pt(client.x - dragStart.x, client.y - dragStart.y)
            /\ InPan(pan')
    /\ UNCHANGED <<zoom, isDragging, dragStart, downPtr, downPan, docVars, startVars>>

\* onMouseUp and onMouseLeave
handleMouseUp ==
    /\ op("handleMouseUp", "")
    /\ isDragging' = FALSE
    /\ UNCHANGED <<zoom, pan, dragStart, downPtr, downPan, docVars, startVars>>

Min(a, b) == IF a < b THEN a ELSE b
Max(a, b) == IF a > b THEN a ELSE b

\* handleWheel zooming in on a scroll down
handleWheel_reversed(ctrlKey, metaKey, deltaY) ==
    /\ IF ctrlKey \/ metaKey
       THEN LET delta == IF deltaY > 0 THEN 10 ELSE -10
            IN /\ zoom' = Min(500, Max(25, zoom + delta))
               /\ op("handleWheel", StoppedAndPrevented)
       ELSE /\ UNCHANGED zoom
            /\ op("handleWheel", Stopped)
    /\ UNCHANGED <<pan, isDragging, dragStart, downPtr, downPan, docVars, startVars>>

\* e.stopPropagation() is the handler's first statement; e.preventDefault()
\* is called under a modifier only
handleWheel(ctrlKey, metaKey, deltaY) ==
    /\ IF ctrlKey \/ metaKey
       THEN LET delta == IF deltaY > 0 THEN -10 ELSE 10
            IN /\ zoom' = Min(500, Max(25, zoom + delta))
               /\ op("handleWheel", StoppedAndPrevented)
       ELSE /\ UNCHANGED zoom
            /\ op("handleWheel", Stopped)
    /\ UNCHANGED <<pan, isDragging, dragStart, downPtr, downPan, docVars, startVars>>

\* the Zoom Out button: setZoom(z => Math.max(25, z - 25))
ZoomOut ==
    /\ op("ZoomOut", "")
    /\ zoom' = Max(25, zoom - 25)
    /\ UNCHANGED <<pan, isDragging, dragStart, downPtr, downPan, docVars, startVars>>

\* the Zoom In button without its upper clamp
ZoomIn_noClamp ==
    /\ op("ZoomIn", "")
    /\ zoom' = zoom + 25
    /\ UNCHANGED <<pan, isDragging, dragStart, downPtr, downPan, docVars, startVars>>

\* the Zoom In button: setZoom(z => Math.min(500, z + 25))
ZoomIn ==
    /\ op("ZoomIn", "")
    /\ zoom' = Min(500, zoom + 25)
    /\ UNCHANGED <<pan, isDragging, dragStart, downPtr, downPan, docVars, startVars>>

\* handleResetView without its setPan
handleResetView_keepsPan ==
    /\ op("handleResetView", "")
    /\ zoom' = 100
    /\ UNCHANGED <<pan, isDragging, dragStart, downPtr, downPan, docVars, startVars>>

handleResetView ==
    /\ op("handleResetView", "")
    /\ zoom' = 100
    /\ pan' = Pt(0, 0)
    /\ UNCHANGED <<isDragging, dragStart, downPtr, downPan, docVars, startVars>>

(***************************************************************************)
(* Specifications.  The handlers of the several concerns are checked      *)
(* apart: together their state spaces multiply beyond what can be          *)
(* enumerated.                                                             *)
(*   Spec         the editor and the render scheduler                      *)
(*   SpecFile     the editor and the file handlers                         *)
(*   SpecView     the view transform, the pointer anywhere in the plane    *)
(*   SpecZoom     the view transform, the pointer along a line             *)
(*   SpecLoad     New, open and render completions with the view in use    *)
(*   SpecSession  theme selection across restarts                          *)
(*   SpecStart    start-up with a command line                             *)
(*   SpecDirty    the dirty flag over edits, New, open and save            *)
(*   SpecSave     edits while a write is outstanding                       *)
(*   SpecFrame    the render scheduler beside the view transform           *)
(*   SpecExport   export with the editor and the renders                   *)
(*   SpecClip     the clipboard check with the editor and the renders      *)
(***************************************************************************)
Init ==
    \E cliTheme \in CliThemes : InitWith(cliTheme, "none", DiskFiles)

Next ==
    \/ \E t \in EditTexts : Edit(t)
    \/ \E h \in timers : TimerFire(h)
    \/ \E i \in 1..Len(inflight) : RenderResolve(i)
    \/ \E i \in 1..Len(inflight) : RenderReject(i, ParseError)
    \/ \E t \in Themes : ThemeSelect(t)
    \/ handleNew
    \/ \E d \in Demos : handleLoadDemo(d)

Spec == Init /\ [][Next]_vars

InitFile ==
    \E cliFile \in CliFiles : InitWith("none", cliFile, DiskFiles)

\* the edits tried between the file operations: to blank and to text
FileEdits == {<<>>, <<"g">>}

NextFile ==
    \/ \E t \in FileEdits : Edit(t)
    \/ handleNew
    \/ \E p \in Paths : OpenPick(p)
    \/ OpenCancel
    \/ \E msg \in ErrMsgs : OpenDialogFail(msg)
    \/ ReadOk
    \/ \E msg \in ErrMsgs : ReadFail(msg)
    \/ SaveCurrent
    \/ \E p \in Paths : SaveAs(p)
    \/ SaveCancel
    \/ \E msg \in ErrMsgs : SaveDialogFail(msg)
    \/ WriteOk
    \/ \E msg \in ErrMsgs : WriteFail(msg)

SpecFile == InitFile /\ [][NextFile]_vars

Buttons == {0, 2}
DeltaYs == {-1, 0, 1}

InitView ==
    InitWith("none", "none", DiskFiles)

NextView ==
    \/ \E b \in Buttons, c \in Ptr : handleMouseDown(b, c)
    \/ \E c \in Ptr : handleMouseMove(c)
    \/ handleMouseUp
    \/ \E ck \in BOOLEAN, mk \in BOOLEAN, dy \in DeltaYs : handleWheel(ck, mk, dy)
    \/ ZoomOut
    \/ ZoomIn
    \/ handleResetView

SpecView == InitView /\ [][NextView]_vars

\* zooming by wheel and buttons while the preview is dragged along a line
InitZoom ==
    InitWith("none", "none", DiskFiles)

NextZoom ==
    \/ \E ck \in BOOLEAN, mk \in BOOLEAN, dy \in DeltaYs : handleWheel(ck, mk, dy)
    \/ ZoomOut
    \/ ZoomIn
    \/ handleResetView
    \/ \E c \in LinePtr : handleMouseDown(0, c)
    \/ \E c \in LinePtr : handleMouseMove(c)
    \/ handleMouseUp

SpecZoom == InitZoom /\ [][NextZoom]_vars

\* loading a document (New, open) and the completion of renders while the
\* view is in use
InitLoad ==
    InitWith("none", "none", DiskFiles)

NextLoad ==
    \/ \E b \in Buttons, c \in LinePtr : handleMouseDown(b, c)
    \/ \E c \in LinePtr : handleMouseMove(c)
    \/ handleMouseUp
    \/ ZoomOut
    \/ handleResetView
    \/ handleNew
    \/ \E p \in Paths : OpenPick(p)
    \/ ReadOk
    \/ \E msg \in ErrMsgs : ReadFail(msg)
    \/ \E i \in 1..Len(inflight) : RenderResolve(i)

SpecLoad == InitLoad /\ [][NextLoad]_vars

\* sessions: themes are selected, the application is closed and started again
InitSession ==
    \E cliTheme \in CliThemes : InitWith(cliTheme, "none", DiskFiles)

NextSession ==
    \/ \E t \in Themes : ThemeSelect(t)
    \/ \E i \in 1..Len(inflight) : RenderResolve(i)
    \/ \E cliTheme \in CliThemes : Restart(cliTheme)

SpecSession == InitSession /\ [][NextSession]_vars

\* start-up with a command line: the file it names is read while the
\* renders of the mount effects are outstanding
InitStart ==
    \E cliTheme \in CliThemes, cliFile \in CliFiles : InitWith(cliTheme, cliFile, DiskFiles)

NextStart ==
    \/ ReadOk
    \/ \E msg \in ErrMsgs : ReadFail(msg)
    \/ \E h \in timers : TimerFire(h)
    \/ \E i \in 1..Len(inflight) : RenderResolve(i)

SpecStart == InitStart /\ [][NextStart]_vars

\* the life of the dirty flag: edits, New, open and save of one file, with
\* a render completion, a theme change, a view operation and an export
InitDirty ==
    InitWith("none", "none", DiskFiles)

NextDirty ==
    \/ Edit(<<>>)
    \/ handleNew
    \/ OpenPick("a.mmd")
    \/ ReadOk
    \/ SaveCurrent
    \/ WriteOk
    \/ \E i \in 1..Len(inflight) : RenderResolve(i)
    \/ ThemeSelect("dark")
    \/ handleMouseDown(0, Pt(1, 0))
    \/ handleResetView
    \/ handleExport

SpecDirty == InitDirty /\ [][NextDirty]_vars

\* edits interleaved with the save of a file opened from the command line;
\* the file holds no carriage return
InitSave ==
    InitWith("none", "b.mmd", DiskFiles)

NextSave ==
    \/ ReadOk
    \/ \E t \in FileEdits : Edit(t)
    \/ SaveCurrent
    \/ WriteOk
    \/ \E msg \in ErrMsgs : WriteFail(msg)

SpecSave == InitSave /\ [][NextSave]_vars

\* the render scheduler and the view transform side by side: one edit, the
\* timer, both outcomes of a render and a theme change, with every handler
\* of the preview
InitFrame ==
    InitWith("none", "none", DiskFiles)

NextFrame ==
    \/ Edit(<<"x">>)
    \/ \E h \in timers : TimerFire(h)
    \/ \E i \in 1..Len(inflight) : RenderResolve(i)
    \/ \E i \in 1..Len(inflight) : RenderReject(i, ParseError)
    \/ ThemeSelect("dark")
    \/ \E b \in Buttons : handleMouseDown(b, Pt(1, 0))
    \/ handleMouseMove(Pt(0, 0))
    \/ handleMouseUp
    \/ \E ck \in BOOLEAN : handleWheel(ck, FALSE, 1)
    \/ ZoomOut
    \/ ZoomIn
    \/ handleResetView

SpecFrame == InitFrame /\ [][NextFrame]_vars

\* export while the buffer is edited and rendered
InitExport ==
    InitWith("none", "none", DiskFiles)

NextExport ==
    \/ handleExport
    \/ \E t \in EditTexts : Edit(t)
    \/ \E h \in timers : TimerFire(h)
    \/ \E i \in 1..Len(inflight) : RenderResolve(i)
    \/ \E i \in 1..Len(inflight) : RenderReject(i, ParseError)

SpecExport == InitExport /\ [][NextExport]_vars

\* the clipboard check while the buffer is edited and rendered
InitClip ==
    InitWith("none", "none", DiskFiles)

NextClip ==
    \/ ClipTimerFire
    \/ \E t \in ClipTexts : ReadTextOk(t)
    \/ \E msg \in ErrMsgs : ReadTextFail(msg)
    \/ \E r \in BOOLEAN : AskAnswer(r)
    \/ \E msg \in ErrMsgs : AskFail(msg)
    \/ \E t \in EditTexts : Edit(t)
    \/ \E h \in timers : TimerFire(h)
    \/ \E i \in 1..Len(inflight) : RenderResolve(i)
    \/ \E i \in 1..Len(inflight) : RenderReject(i, ParseError)

SpecClip == InitClip /\ [][NextClip]_vars

(***************************************************************************)
(* Properties.                                                             *)
(***************************************************************************)
\* the handlers that change the buffer through the editor's update listener
EditOps == {"Edit", "handleNew", "handleLoadDemo"}

\* C1: when the last of several outstanding render calls settles, the
\* render result, status and error flag shown are those the most recently
\* initiated call produced; an earlier call never overwrites a later one.
C1_LatestRenderWins ==
    [][(inflight # <<>> /\ inflight' = <<>>) => latestResult' = <<Display'>>]_vars

\* C2: at most one debounce timer is pending, exactly one while a burst of
\* edits is open and none otherwise; every edit cancels the pending timer and
\* schedules a new one; the fire that ends the burst renders once, with the
\* buffer text left by the last edit.
C2_Step ==
    /\ Cardinality(timers') = (IF burst' > 0 THEN 1 ELSE 0)
    /\ lastOp' \in EditOps =>
          /\ burst' > 0
          /\ timers' = {renderTimeoutRef'}
          /\ renderTimeoutRef' \notin timers
    /\ doc' # doc => lastOp' \in EditOps
    /\ lastOp' = "TimerFire" =>
          /\ burst > 0 /\ burst' = 0
          /\ IF IsBlank(doc)
             THEN inflight' = inflight /\ svg' = Placeholder
             ELSE /\ Len(inflight') = Len(inflight) + 1
                  /\ SubSeq(inflight', 1, Len(inflight)) = inflight
                  /\ inflight'[Len(inflight')].code = doc
    /\ (lastOp' # "TimerFire" /\ currentTheme' = currentTheme) => inflight' \in
          {inflight} \cup {RemoveAt(inflight, i) : i \in 1..Len(inflight)}

C2_OneRenderPerBurst == [][C2_Step]_vars

\* a burst of two or more edits is open and its one timer is pending
C2_Witness == burst = MaxBurst /\ timers = {renderTimeoutRef} /\ lastOp = "Edit"

\* C3: the render call a debounce fire issues carries the buffer text and
\* the theme selected at fire time.
C3_FireUsesSelectedTheme ==
    [][(lastOp' = "TimerFire" /\ ~IsBlank(doc)) =>
          inflight' = Append(inflight, [code |-> doc,
                                        theme |-> getThemeColors(currentTheme)])]_vars

\* C4: the zoom percent is an integer between 25 and 500 in every state.
C4_ZoomInRange == zoom \in 25..500

\* a modifier-wheel event has brought the zoom to its upper limit
C4_Witness == zoom = 500 /\ lastOp = "handleWheel"

\* C5: after reset the zoom is 100 and the pan is (0, 0).
C5_ResetYields == lastOp = "handleResetView" => (zoom = 100 /\ pan = Pt(0, 0))

\* reset ran during a drag that began at a pan other than (0, 0)
C5_Witness == lastOp = "handleResetView" /\ isDragging /\ downPan # Pt(0, 0)

\* C6: a primary press leaves pan unchanged, and a move to p while dragging
\* sets pan to (pan at the press) + (p - pointer at the press).
C6_Step ==
    /\ lastOp' = "handleMouseDown" => pan' = pan
    /\ \A c \in Ptr : (isDragging /\ handleMouseMove(c)) =>
          pan' = Pt(downPan.x + (c.x - downPtr.x), downPan.y + (c.y - downPtr.y))

C6_DragContinuity == [][C6_Step]_vars

\* a drag that began at a pan left by an earlier drag has moved the pan
C6_Witness ==
    /\ lastOp = "handleMouseMove" /\ isDragging
    /\ downPan # Pt(0, 0) /\ pan # downPan

\* C7: a save that follows an open with no edit in between writes to the
\* opened path exactly the text that was read, and leaves the dirty flag
\* false and currentFile equal to that path.
C7_OpenSaveRoundTrip ==
    [][(lastOp' = "WriteOk" /\ writing # <<>> /\ writing[1].opened # <<>>) =>
          LET w == writing[1]
              o == w.opened[1]
          IN /\ w.path = o.path
             /\ fs'[o.path] = o.text
             /\ isDirty' = FALSE
             /\ currentFile' = o.path]_vars

\* C8: a failed open or save sets the status to the failure message and the
\* error flag, and leaves buffer, currentFile and dirty flag as they were.
C8_Step ==
    /\ lastOp' \in {"OpenDialogFail", "ReadFail"} =>
          status' = St("Failed to open: ", lastArg')
    /\ lastOp' \in {"SaveDialogFail", "WriteFail"} =>
          status' = St("Failed to save: ", lastArg')
    /\ lastOp' \in {"OpenDialogFail", "ReadFail", "SaveDialogFail", "WriteFail"} =>
          /\ isError' = TRUE
          /\ doc' = doc
          /\ currentFile' = currentFile
          /\ isDirty' = isDirty

C8_FailedIoKeepsDocument == [][C8_Step]_vars

\* the write of an edited document to its file has failed
C8_Witness ==
    /\ lastOp = "WriteFail" /\ isDirty /\ currentFile # NoFile
    /\ status = St("Failed to save: ", lastArg) /\ isError

\* C9: when a render call resolves, the render result is the markup it
\* resolved with, the status is "Syntax OK" and the error flag is false.
C9_Step ==
    \A i \in 1..Len(inflight) :
        (lastOp' = "RenderResolve" /\ inflight' = RemoveAt(inflight, i)) =>
            /\ ~IsBlank(inflight[i].code)
            /\ svg' = renderMermaid(inflight[i].code, inflight[i].theme)
            /\ status' = St("Syntax OK", "")
            /\ isError' = FALSE

C9_ResolveShowsMarkup == [][C9_Step]_vars

\* a render of edited text under the dark theme has resolved
C9_Witness ==
    /\ lastOp = "RenderResolve" /\ svg = renderMermaid(<<"g">>, "dark")
    /\ status = St("Syntax OK", "") /\ ~isError

\* C10: when a render call rejects with a message, the render result is the
\* failure carrying it, the status is "Error: " and the message, the error
\* flag is true, and buffer and dirty flag are unchanged.
C10_Step ==
    lastOp' = "RenderReject" =>
        /\ svg' = ErrorSvg(lastArg')
        /\ status' = St("Error: ", lastArg')
        /\ isError' = TRUE
        /\ doc' = doc
        /\ isDirty' = isDirty

C10_RejectShowsError == [][C10_Step]_vars

\* a render of an edited buffer has rejected
C10_Witness ==
    /\ lastOp = "RenderReject" /\ lastArg = ParseError
    /\ isError /\ isDirty /\ svg = ErrorSvg(ParseError)

\* C11: a render that fires while the buffer is empty or holds white space
\* only issues no external render call and shows the neutral placeholder,
\* the status "Ready" and no error.
C11_Step ==
    (/\ \/ lastOp' = "TimerFire"
        \/ lastOp' = "ThemeSelect" /\ currentTheme' # currentTheme
     /\ IsBlank(doc)) =>
        /\ inflight' = inflight
        /\ svg' = Placeholder
        /\ status' = St("Ready", "")
        /\ isError' = FALSE

C11_BlankRender == [][C11_Step]_vars

\* the debounce timer fired on a buffer edited down to a single space
C11_Witness ==
    /\ lastOp = "TimerFire" /\ doc = <<"SP">> /\ isDirty
    /\ svg = Placeholder /\ status = St("Ready", "") /\ ~isError

\* C12: every change of the selected theme runs a render at once, whether
\* or not a debounce timer is pending and without touching it, on the buffer
\* text of that moment and with the newly selected theme.
C12_Step ==
    /\ currentTheme' # currentTheme =>
          IF IsBlank(doc')
          THEN inflight' = inflight /\ svg' = Placeholder
          ELSE inflight' = Append(inflight, [code |-> doc',
                                             theme |-> getThemeColors(currentTheme')])
    /\ lastOp' = "ThemeSelect" =>
          /\ timers' = timers
          /\ renderTimeoutRef' = renderTimeoutRef
          /\ doc' = doc

C12_ThemeChangeRenders == [][C12_Step]_vars

\* the dark theme was selected while the timer of an edit was pending
C12_Witness ==
    /\ lastOp = "ThemeSelect" /\ currentTheme = "dark"
    /\ timers # {} /\ isDirty /\ inflight # <<>>
    /\ inflight[Len(inflight)] = [code |-> doc, theme |-> "dark"]

\* C13: after a new document is loaded, by New or by a successful open, the
\* zoom is 100 and the pan is (0, 0).
C13_LoadResetsView ==
    lastOp \in {"handleNew", "ReadOk"} => (zoom = 100 /\ pan = Pt(0, 0))

\* C14: a session started without a valid theme argument begins with the
\* theme that was selected when the previous session ended.
C14_ThemePersists ==
    (lastOp = "Restart" /\ lastArg \notin Themes) => currentTheme = prevTheme[1]

\* C15: when the file named on the command line cannot be read, the status
\* becomes "Failed to open: " and the message with the error flag set, the
\* buffer keeps the default document and currentFile stays null; and the
\* start-up renders that resolve afterwards leave that status and flag.
C15_Step ==
    /\ lastOp' = "ReadFail" =>
          /\ status' = St("Failed to open: ", lastArg')
          /\ isError' = TRUE
          /\ doc' = DEFAULT_CODE
          /\ currentFile' = NoFile
    /\ (lastOp' = "RenderResolve" /\ status.text = "Failed to open: ") =>
          /\ status' = status
          /\ isError' = isError

C15_StartupOpenError == [][C15_Step]_vars

\* the steps of checkClipboard
ClipOps == {"ClipTimerFire", "ReadTextOk", "ReadTextFail", "AskAnswer", "AskFail"}

\* C16: the clipboard text replaces the buffer only when the keyword
\* heuristic matched and the user confirmed the prompt; every other outcome
\* of the clipboard check (empty clipboard, no match, declined, failed read)
\* leaves buffer, dirty flag, status and error flag unchanged.
C16_Step ==
    /\ (lastOp' = "AskAnswer" /\ lastArg' = "yes") =>
          /\ hasMermaidKeyword(clipboard.text)
          /\ doc' = Normalize(clipboard.text)
    /\ (lastOp' \in ClipOps /\ ~(lastOp' = "AskAnswer" /\ lastArg' = "yes")) =>
          UNCHANGED <<doc, isDirty, status, isError>>
    /\ (lastOp' = "ReadTextOk" /\ clipboard'.pc = "asking") =>
          \E t \in ClipTexts : /\ ReadTextOk(t)
                                /\ hasMermaidKeyword(trim(t))
                                /\ clipboard'.text = trim(t)
    /\ (status' # status /\ status'.text = "Imported from clipboard") =>
          (lastOp' = "AskAnswer" /\ lastArg' = "yes")

C16_ClipboardImport == [][C16_Step]_vars

\* the prompt was declined while an edited buffer showed a render error
C16_Witness ==
    /\ lastOp = "AskAnswer" /\ lastArg = "no"
    /\ isDirty /\ isError /\ status = St("Error: ", ParseError)

\* C17: the drag state goes from Idle to Dragging on a primary-button press
\* only, and from Dragging to Idle on pointer-up or pointer-leave only; a
\* press of another button leaves the state and the recorded offset; zoom,
\* reset, render and file operations leave the drag state.
C17_Step ==
    /\ (~isDragging /\ isDragging') => \E c \in LinePtr : handleMouseDown(0, c)
    /\ (isDragging /\ ~isDragging') => lastOp' = "handleMouseUp"
    /\ \A c \in LinePtr :
          /\ handleMouseDown(0, c) => isDragging'
          /\ handleMouseDown(2, c) => (isDragging' = isDragging /\ dragStart' = dragStart)
    /\ lastOp' = "handleMouseUp" => ~isDragging'
    /\ lastOp' \notin {"handleMouseDown", "handleMouseUp"} =>
          (isDragging' = isDragging /\ dragStart' = dragStart)

C17_DragTransitions == [][C17_Step]_vars

\* a drag that moved the preview of an opened file ended with pointer-up
C17_Witness ==
    /\ lastOp = "handleMouseUp" /\ ~isDragging
    /\ pan # Pt(0, 0) /\ currentFile # NoFile

\* C18: a pointer move in state Idle leaves the pan; a move to p in state
\* Dragging sets the pan to p minus the offset recorded at the press, which
\* is the pointer position of the press minus the pan at the press.
C18_Step ==
    /\ lastOp' = "handleMouseMove" =>
          \A c \in Ptr : handleMouseMove(c) =>
              IF isDragging
              THEN pan' = Pt(c.x - dragStart.x, c.y - dragStart.y)
              ELSE pan' = pan
    /\ isDragging' =>
          dragStart' = Pt(downPtr'.x - downPan'.x, downPtr'.y - downPan'.y)

C18_MoveSetsPan == [][C18_Step]_vars

\* the pointer moved over the preview after a drag that left a pan
C18_Witness ==
    /\ lastOp = "handleMouseMove" /\ ~isDragging
    /\ pan # Pt(0, 0) /\ dragStart # Pt(0, 0)

\* C19: a wheel event with neither modifier leaves zoom and pan, and the
\* preview neither prevents its default action nor stops its propagation.
C19_PlainWheelNotCaptured ==
    [][\A dy \in DeltaYs : handleWheel(FALSE, FALSE, dy) =>
          /\ zoom' = zoom
          /\ pan' = pan
          /\ lastArg' \notin {Stopped, StoppedAndPrevented}]_vars

\* v brought into the range 25..500
Clamped(v) == IF v < 25 THEN 25 ELSE IF v > 500 THEN 500 ELSE v

\* C20: Zoom In yields min(500, z + 25), Zoom Out max(25, z - 25), a wheel
\* event with a modifier the clamp to 25..500 of z - 10 when deltaY > 0 and
\* of z + 10 otherwise; none of them changes the pan.
C20_Step ==
    /\ lastOp' = "ZoomIn" =>
          /\ zoom' = (IF zoom + 25 > 500 THEN 500 ELSE zoom + 25)
          /\ pan' = pan
    /\ lastOp' = "ZoomOut" =>
          /\ zoom' = (IF zoom - 25 < 25 THEN 25 ELSE zoom - 25)
          /\ pan' = pan
    /\ (lastOp' = "handleWheel" /\ lastArg' = StoppedAndPrevented) =>
          \A ck \in BOOLEAN, mk \in BOOLEAN, dy \in DeltaYs :
              ((ck \/ mk) /\ handleWheel(ck, mk, dy)) =>
                  /\ zoom' = Clamped(IF dy > 0 THEN zoom - 10 ELSE zoom + 10)
                  /\ pan' = pan

C20_ZoomSteps == [][C20_Step]_vars

\* a modifier-wheel scroll down was clamped at the lower limit during a pan
C20_Witness ==
    /\ lastOp = "handleWheel" /\ lastArg = StoppedAndPrevented
    /\ zoom = 25 /\ pan # Pt(0, 0)

\* C21: export while the preview holds no rendered SVG (nothing yet, the
\* placeholder, a render failure) downloads nothing and sets the status "No
\* diagram to export" with the error flag; export of a rendered SVG sets
\* "Exported SVG" without the flag; buffer, dirty flag and render result are
\* left in both cases.
C21_Step ==
    lastOp' = "handleExport" =>
        /\ IF svg.kind \in {"empty", "placeholder", "error"}
           THEN /\ downloads' = downloads
                /\ status' = St("No diagram to export", "")
                /\ isError' = TRUE
           ELSE /\ svg.kind = "rendered"
                /\ downloads' = <<svg>>
                /\ status' = St("Exported SVG", "")
                /\ isError' = FALSE
        /\ UNCHANGED <<doc, isDirty, svg>>

C21_Export == [][C21_Step]_vars

\* export was tried on a render failure after an earlier diagram was exported
C21_Witness ==
    /\ lastOp = "handleExport" /\ svg.kind = "error" /\ downloads # <<>>
    /\ status = St("No diagram to export", "") /\ isError /\ isDirty

\* the view handlers
ViewOps == {"handleMouseDown", "handleMouseMove", "handleMouseUp", "handleWheel",
            "ZoomIn", "ZoomOut", "handleResetView"}

\* C22: after a user edit the dirty flag is true; it becomes false only when
\* a save, an open or New completes; render completions, theme changes, view
\* operations and exports leave it as it is.
C22_Step ==
    /\ lastOp' = "Edit" => isDirty'
    /\ (isDirty /\ ~isDirty') => lastOp' \in {"WriteOk", "ReadOk", "handleNew"}
    /\ lastOp' \in {"RenderResolve", "RenderReject", "TimerFire", "ThemeSelect",
                   "handleExport"} \cup ViewOps =>
          isDirty' = isDirty

C22_DirtyFlag == [][C22_Step]_vars

\* the edited text of an opened file was exported under the dark theme
C22_Witness ==
    /\ lastOp = "handleExport" /\ isDirty /\ currentFile = "a.mmd"
    /\ currentTheme = "dark" /\ downloads # <<>> /\ isDragging

\* C23: a render failure issues no further render call and schedules none;
\* calls are issued by debounce fires and theme changes only, and timers set
\* by changes of the buffer only; the editor stays usable after a failure:
\* an edit schedules a render as usual, and a render that then resolves
\* clears the error flag and replaces the failure by its result.
C23_Step ==
    /\ lastOp' = "RenderReject" =>
          /\ \E i \in 1..Len(inflight) : inflight' = RemoveAt(inflight, i)
          /\ timers' = timers
          /\ renderTimeoutRef' = renderTimeoutRef
          /\ doc' = doc
    /\ Len(inflight') > Len(inflight) =>
          (lastOp' = "TimerFire" \/ currentTheme' # currentTheme)
    /\ timers' \ timers # {} => lastOp' \in EditOps
    /\ isError => ENABLED (\E t \in EditTexts : Edit(t))
    /\ (isError /\ lastOp' = "Edit") =>
          /\ timers' = {renderTimeoutRef'}
          /\ renderTimeoutRef' \notin timers
    /\ (svg.kind = "error" /\ lastOp' = "RenderResolve") =>
          /\ isError' = FALSE
          /\ svg'.kind = "rendered"
          /\ status' = St("Syntax OK", "")

C23_NoRetry == [][C23_Step]_vars

\* a render failed and nothing is scheduled or outstanding
C23_Witness ==
    /\ lastOp = "RenderReject" /\ isError /\ svg.kind = "error"
    /\ inflight = <<>> /\ timers = {} /\ Rejects(doc)

\* the events of the render scheduler
SchedOps == {"Edit", "TimerFire", "RenderResolve", "RenderReject", "ThemeSelect"}

\* C24: the render scheduler and the view transform do not touch each
\* other's state: an edit, a debounce fire, a render completion and a theme
\* change leave zoom, pan, the drag state and the drag offset; a press, move,
\* release, leave, wheel, zoom button and reset leave the render result,
\* status, error flag, dirty flag, buffer and pending timer.
C24_Step ==
    /\ lastOp' \in SchedOps =>
          UNCHANGED <<zoom, pan, isDragging, dragStart>>
    /\ lastOp' \in ViewOps =>
          UNCHANGED <<svg, status, isError, isDirty, doc, renderTimeoutRef,
                      timers, inflight>>

C24_Frame == [][C24_Step]_vars

\* a render completes while the preview is zoomed, panned and being dragged
C24_Witness ==
    /\ lastOp = "RenderResolve"
    /\ zoom # 100 /\ pan # Pt(0, 0) /\ isDragging
    /\ timers # {} /\ isDirty

\* the preview of `code` drawn with the colours `theme`: the placeholder for
\* blank text, the error markup for text the renderer rejects
Preview(code, theme) ==
    IF IsBlank(code) THEN Placeholder
    ELSE IF Rejects(code) THEN ErrorSvg(errorMessage(ParseError))
    ELSE renderMermaid(code, theme)

\* C25: once no debounce timer is pending and no render call is outstanding,
\* the preview shows the render of the current buffer text with the
\* currently selected theme.
C25_PreviewConverges ==
    (timers = {} /\ inflight = <<>>) =>
        svg = Preview(doc, getThemeColors(currentTheme))

\* the status texts that report an error
ErrorTexts == {"Error: ", "Failed to open: ", "Failed to save: ",
               "No diagram to export"}

\* C26: in every state the error flag is true exactly when the status is an
\* error message.
C26_StatusAgrees == isError <=> status.text \in ErrorTexts

\* C27: whenever the dirty flag is false and there is a current file, the
\* buffer equals the content last read from or written to that file.
C27_CleanMeansSaved ==
    (~isDirty /\ currentFile # NoFile) => doc = fs[currentFile]

\* C28: after start-up the selected theme changes through the theme selector
\* only; every other handler leaves it.
C28_ThemeBySelectorOnly ==
    [][currentTheme' # currentTheme => lastOp' = "ThemeSelect"]_vars

\* C29: a cancelled open or save dialog reads and writes no file and leaves
\* the buffer, currentFile, the dirty flag, the status and the error flag;
\* the save dialog is shown only when there is no current file; save with a
\* current file writes the buffer text to that file.
C29_Step ==
    /\ lastOp' \in {"OpenCancel", "SaveCancel"} =>
          UNCHANGED <<doc, currentFile, isDirty, status, isError, fs, reading,
                      writing>>
    /\ lastOp' \in {"SaveAs", "SaveCancel", "SaveDialogFail"} =>
          currentFile = NoFile
    /\ lastOp' = "SaveCurrent" =>
          /\ currentFile # NoFile
          /\ Len(writing') = 1
          /\ writing'[1].path = currentFile
          /\ writing'[1].content = doc
    /\ (lastOp' = "WriteOk" /\ writing # <<>>) =>
          fs' = [fs EXCEPT ![writing[1].path] = writing[1].content]

C29_CancelChangesNothing == [][C29_Step]_vars

\* the save dialog was cancelled with unsaved edits and an error showing
C29_Witness ==
    /\ lastOp = "SaveCancel" /\ isDirty /\ isError
    /\ currentFile = NoFile /\ fs = DiskFiles

====
